---- MODULE Spec2Model ----
(***************************************************************************)
(* bump-tf-values: updateHclFile opens a Terraform file, parses it, sets   *)
(* one attribute of a `locals` block and rewrites the file in place.       *)
(*                                                                         *)
(* A file is a sequence of bytes.  Each byte is written as a one-character *)
(* string:                                                                 *)
(*   "L" "O" "a" "b"  identifiers (`locals`, `output`, two attribute names)*)
(*   "s"              a quoted block label                                 *)
(*   "{" "}" "="      punctuation                                          *)
(*   "Q"              the double quote of a string literal                 *)
(*   "1" "2"          characters of a string literal                       *)
(*   "v"              an expression that is no string literal (var.x)      *)
(*   "#"              start of a line comment, "N" the newline ending it   *)
(*   "c"              a character of comment text                          *)
(*   "0"              the NUL byte of a buffer make([]byte, n) left unread *)
(***************************************************************************)
EXTENDS Integers, Sequences, FiniteSets, TLC

\* Bounds of the model.
MaxChunks == 3      \* pieces of text an initial file is made of
MaxValLen == 1      \* characters of INPUT_VALUE

NUL == "0"
Idents == {"L", "O", "a", "b"}

-----------------------------------------------------------------------------
(* hclwrite.ParseConfig and File.WriteTo, on the byte alphabet above.      *)

\* First index j >= i with b[j] = c, or Len(b) + 1.
RECURSIVE IndexOf(_, _, _)
IndexOf(b, i, c) ==
    IF i > Len(b) THEN Len(b) + 1
    ELSE IF b[i] = c THEN i ELSE IndexOf(b, i + 1, c)

\* First index j >= i whose byte is no block label, or Len(b) + 1.
RECURSIVE SkipLabels(_, _)
SkipLabels(b, i) ==
    IF i > Len(b) THEN Len(b) + 1
    ELSE IF b[i] = "s" THEN SkipLabels(b, i + 1) ELSE i

\* hclsyntax reports "Attribute redefined" for a name set twice in one body.
NoDupAttrs(items) ==
    \A j, k \in 1..Len(items) :
        (j < k /\ items[j].kind = "attr" /\ items[k].kind = "attr")
            => items[j].name # items[k].name

\* The body starting at b[i]: the items up to end of input (nested = FALSE)
\* or up to the closing brace (nested = TRUE).
RECURSIVE ParseItems(_, _, _)
ParseItems(b, i, nested) ==
    IF i > Len(b) THEN [ok |-> ~nested, items |-> <<>>, next |-> i]
    ELSE IF b[i] = "}" THEN [ok |-> nested, items |-> <<>>, next |-> i + 1]
    ELSE IF b[i] = "N" THEN
        LET rest == ParseItems(b, i + 1, nested)
        IN  [ok |-> rest.ok, next |-> rest.next,
             items |-> <<[kind |-> "newline"]>> \o rest.items]
    ELSE IF b[i] = "#" THEN
        \* ("#" (any - EndOfLine)* :>> EndOfLine?): the comment takes every
        \* byte up to the newline, or up to the end of the input.
        LET e == IndexOf(b, i + 1, "N")
            rest == ParseItems(b, e + 1, nested)
        IN  [ok |-> rest.ok, next |-> rest.next,
             items |-> <<[kind |-> "comment", text |-> SubSeq(b, i + 1, e - 1),
                          nl |-> e <= Len(b)]>> \o rest.items]
    ELSE IF b[i] \in Idents /\ i < Len(b) /\ b[i + 1] = "=" THEN
        IF i + 2 <= Len(b) /\ b[i + 2] = "v" THEN
            LET rest == ParseItems(b, i + 3, nested)
            IN  [ok |-> rest.ok, next |-> rest.next,
                 items |-> <<[kind |-> "attr", name |-> b[i],
                              expr |-> <<"v">>]>> \o rest.items]
        ELSE IF i + 2 <= Len(b) /\ b[i + 2] = "Q" THEN
            LET e == IndexOf(b, i + 3, "Q")
                lit == SubSeq(b, i + 2, e)
                rest == ParseItems(b, e + 1, nested)
            IN  IF e > Len(b) \/ \E k \in (i + 3)..(e - 1) : b[k] \in {"N", NUL}
                THEN [ok |-> FALSE, items |-> <<>>, next |-> i]
                ELSE [ok |-> rest.ok, next |-> rest.next,
                      items |-> <<[kind |-> "attr", name |-> b[i],
                                   expr |-> lit]>> \o rest.items]
        ELSE [ok |-> FALSE, items |-> <<>>, next |-> i]
    ELSE IF b[i] \in Idents THEN
        LET j == SkipLabels(b, i + 1)
        IN  IF j > Len(b) \/ b[j] # "{"
            THEN [ok |-> FALSE, items |-> <<>>, next |-> i]
            ELSE LET body == ParseItems(b, j + 1, TRUE)
                     rest == ParseItems(b, body.next, nested)
                 IN  IF ~body.ok \/ ~NoDupAttrs(body.items)
                     THEN [ok |-> FALSE, items |-> <<>>, next |-> i]
                     ELSE [ok |-> rest.ok, next |-> rest.next,
                           items |-> <<[kind |-> "block", type |-> b[i],
                                        labels |-> SubSeq(b, i + 1, j - 1),
                                        body |-> body.items]>> \o rest.items]
    ELSE [ok |-> FALSE, items |-> <<>>, next |-> i]

\* hclwrite.ParseConfig(content, ...): diags.HasErrors() is ~ok.
ParseConfig(content) ==
    LET r == ParseItems(content, 1, FALSE)
    IN  IF r.ok /\ NoDupAttrs(r.items)
        THEN [ok |-> TRUE, body |-> r.items]
        ELSE [ok |-> FALSE, body |-> <<>>]

\* The bytes hclFile.WriteTo writes: every token of the tree, in order.
RECURSIVE Bytes(_)
Bytes(items) ==
    IF items = <<>> THEN <<>>
    ELSE LET it == Head(items)
             me == CASE it.kind = "newline" -> <<"N">>
                     [] it.kind = "comment" ->
                            <<"#">> \o it.text \o (IF it.nl THEN <<"N">> ELSE <<>>)
                     [] it.kind = "attr" -> <<it.name, "=">> \o it.expr
                     [] it.kind = "block" ->
                            <<it.type>> \o it.labels \o <<"{">>
                                \o Bytes(it.body) \o <<"}">>
         IN  me \o Bytes(Tail(items))

-----------------------------------------------------------------------------
(* updateLocal                                                             *)

\* block.Body().GetAttribute(name) != nil
HasAttribute(body, name) ==
    \E k \in 1..Len(body) : body[k].kind = "attr" /\ body[k].name = name

\* hclwrite.TokensForValue(cty.StringVal(value)): the quoted literal.
StringVal(value) == <<"Q">> \o value \o <<"Q">>

\* SetAttributeValue gone wrong: the value is set in every attribute of the
\* body, whatever its name.
SetAttributeValueAnyName(body, name, val) ==
    [k \in 1..Len(body) |->
        IF body[k].kind = "attr"
        THEN [body[k] EXCEPT !.expr = val]
        ELSE body[k]]

\* block.Body().SetAttributeValue(name, val) on a body that has the
\* attribute: its expression is replaced, everything else stays.
SetAttributeValue(body, name, val) ==
    [k \in 1..Len(body) |->
        IF body[k].kind = "attr" /\ body[k].name = name
        THEN [body[k] EXCEPT !.expr = val]
        ELSE body[k]]

\* The loop of updateLocal from item i of the file body on; found is the
\* flag the loop sets.  Body().Blocks() yields the top-level blocks only.
RECURSIVE LoopBlocks(_, _, _, _)
LoopBlocks(items, i, varname, value) ==
    IF i > Len(items) THEN [found |-> FALSE, body |-> items]
    ELSE IF /\ items[i].kind = "block"
            /\ items[i].type = "L"
            /\ HasAttribute(items[i].body, varname)
    THEN [found |-> TRUE,
          body |-> [items EXCEPT ![i].body =
                       SetAttributeValue(@, varname, StringVal(value))]]
    ELSE LoopBlocks(items, i + 1, varname, value)

\* updateLocal without the check of found: nil is returned in every case.
updateLocalNoCheck(file, varname, value) ==
    [found |-> TRUE, body |-> LoopBlocks(file.body, 1, varname, value).body]

\* updateLocal without the break: every `locals` block defining varname is
\* updated.
RECURSIVE LoopBlocksNoBreak(_, _, _, _, _)
LoopBlocksNoBreak(items, i, varname, value, found) ==
    IF i > Len(items) THEN [found |-> found, body |-> items]
    ELSE IF /\ items[i].kind = "block"
            /\ items[i].type = "L"
            /\ HasAttribute(items[i].body, varname)
    THEN LoopBlocksNoBreak(
             [items EXCEPT ![i].body =
                 SetAttributeValue(@, varname, StringVal(value))],
             i + 1, varname, value, TRUE)
    ELSE LoopBlocksNoBreak(items, i + 1, varname, value, found)

updateLocalNoBreak(file, varname, value) ==
    LoopBlocksNoBreak(file.body, 1, varname, value, FALSE)

updateLocal(file, varname, value) == LoopBlocks(file.body, 1, varname, value)

-----------------------------------------------------------------------------
(* The file system and the run of updateHclFile                            *)

VARIABLES
    disk,       \* bytes of the file at filePath
    exists,     \* the path names a file
    writePerm,  \* the process may open it for writing
    varname,    \* INPUT_VARNAME
    value,      \* INPUT_VALUE
    pc,         \* the statement updateHclFile is at
    file,       \* the *os.File: "nil", "open" or "closed"
    pos,        \* the handle's cursor
    size,       \* info.Size()
    content,    \* the buffer read into
    hclFile,    \* the *hclwrite.File, NoFile while nil
    err,        \* the variable err of updateHclFile
    ret,        \* the error updateHclFile returns, Running before it returns
    logged,     \* messages written to the log
    trace,      \* the steps taken so far, each <<step, succeeded>>
    disk0,      \* the bytes of the file when the run started
    parsed0     \* the document as parseHclFile returned it

vars == <<disk, exists, writePerm, varname, value, pc, file, pos, size,
          content, hclFile, err, ret, logged, trace, disk0, parsed0>>

Running == <<"(running)">>
NoError == <<>>
NoFile == [body |-> <<>>, nil |-> TRUE]
File(items) == [body |-> items, nil |-> FALSE]

\* Pieces of text the initial files are made of:
\*   locals { b = "" }
\*   locals { # c \n b = v a = "11" }
\*   output "s" { a = v locals { a = "1" } }
\*   a = "1" # c            (a top-level attribute, a comment with no newline)
\*   output "s"             (a block with no body: no valid document)
Chunks ==
    { <<"L", "{", "b", "=", "Q", "Q", "}">>,
      <<"L", "{", "#", "c", "N", "b", "=", "v", "a", "=", "Q", "1", "1", "Q", "}">>,
      <<"O", "s", "{", "a", "=", "v", "L", "{", "a", "=", "Q", "1", "Q", "}", "}">>,
      <<"a", "=", "Q", "1", "Q", "#", "c">>,
      <<"O", "s">> }

RECURSIVE Concats(_)
Concats(n) ==
    IF n = 0 THEN {<<>>}
    ELSE Concats(n - 1) \cup {f \o c : f \in Concats(n - 1), c \in Chunks}

Files == Concats(MaxChunks)

RECURSIVE Repeat(_, _)
Repeat(c, n) == IF n = 0 THEN <<>> ELSE <<c>> \o Repeat(c, n - 1)

Values == {Repeat("2", n) : n \in 0..MaxValLen}
Varnames == {"a", "b"}

Init ==
    /\ exists \in BOOLEAN
    /\ writePerm \in BOOLEAN
    /\ disk \in Files
    /\ ~exists => (disk = <<>> /\ ~writePerm)
    /\ varname \in Varnames
    /\ value \in Values
    /\ pc = "open"
    /\ file = "nil"
    /\ pos = 0
    /\ size = 0
    /\ content = <<>>
    /\ hclFile = NoFile
    /\ err = NoError
    /\ ret = Running
    /\ logged = <<>>
    /\ trace = <<>>
    /\ disk0 = disk
    /\ parsed0 = NoFile

Step(name, ok) == trace' = Append(trace, <<name, ok>>)

\* OpenFile with os.O_RDONLY: the open does not need the write permission.
OpenFileReadOnly ==
    /\ pc = "open"
    /\ IF exists
       THEN /\ Step("open", TRUE)
            /\ file' = "open"
            /\ pos' = 0
            /\ pc' = "stat"
            /\ UNCHANGED <<err, ret>>
       ELSE /\ Step("open", FALSE)
            /\ err' = <<"open error">>
            /\ ret' = <<"failed to open file">>
            /\ pc' = "done"
            /\ UNCHANGED <<file, pos>>
    /\ UNCHANGED <<disk, exists, writePerm, varname, value, size, content,
                   hclFile, logged, disk0, parsed0>>

\* os.OpenFile(filePath, os.O_RDWR, 0600), and the return of line 53.
OpenFile ==
    /\ pc = "open"
    /\ IF exists /\ writePerm
       THEN /\ Step("open", TRUE)
            /\ file' = "open"
            /\ pos' = 0
            /\ pc' = "stat"
            /\ UNCHANGED <<err, ret>>
       ELSE /\ Step("open", FALSE)
            /\ err' = <<"open error">>
            /\ ret' = <<"failed to open file">>
            /\ pc' = "done"
            /\ UNCHANGED <<file, pos>>
    /\ UNCHANGED <<disk, exists, writePerm, varname, value, size, content,
                   hclFile, logged, disk0, parsed0>>

\* file.Stat() in parseHclFile.
Stat ==
    /\ pc = "stat"
    /\ \E ok \in BOOLEAN :
        /\ Step("stat", ok)
        /\ IF ok
           THEN /\ size' = Len(disk)
                /\ pc' = "read"
                /\ UNCHANGED <<err, ret>>
           ELSE /\ err' = <<"failed to get file info">>
                /\ ret' = <<"failed to parse HCL file", "failed to get file info">>
                /\ pc' = "close"
                /\ UNCHANGED size
    /\ UNCHANGED <<disk, exists, writePerm, varname, value, file, pos, content,
                   hclFile, logged, disk0, parsed0>>

\* content := make([]byte, info.Size()); file.Read(content).  Read returns
\* n bytes: an error when n = 0 < len(content), and otherwise no error,
\* whether or not the buffer was filled; the count is discarded.
Read ==
    /\ pc = "read"
    /\ \E n \in 0..size :
        /\ Step("read", n > 0 \/ size = 0)
        /\ IF n > 0 \/ size = 0
           THEN /\ content' = SubSeq(disk, 1, n) \o Repeat(NUL, size - n)
                /\ pos' = pos + n
                /\ pc' = "parse"
                /\ UNCHANGED <<err, ret>>
           ELSE /\ err' = <<"failed to read file content">>
                /\ ret' = <<"failed to parse HCL file", "failed to read file content">>
                /\ pc' = "close"
                /\ content' = Repeat(NUL, size)
                /\ UNCHANGED pos
    /\ UNCHANGED <<disk, exists, writePerm, varname, value, file, size,
                   hclFile, logged, disk0, parsed0>>

\* Parse with the close written out on the paths that return, and left out
\* on the path of the parse error.
ParseNoClose ==
    /\ pc = "parse"
    /\ LET r == ParseConfig(content)
       IN  /\ Step("parse", r.ok)
           /\ IF r.ok
              THEN /\ hclFile' = File(r.body)
                   /\ parsed0' = File(r.body)
                   /\ err' = NoError
                   /\ pc' = "update"
                   /\ UNCHANGED ret
              ELSE /\ err' = <<"failed to parse file content">>
                   /\ ret' = <<"failed to parse HCL file", "failed to parse file content">>
                   /\ pc' = "done"
                   /\ UNCHANGED <<hclFile, parsed0>>
    /\ UNCHANGED <<disk, exists, writePerm, varname, value, file, pos, size,
                   content, logged, disk0>>

\* hclwrite.ParseConfig(content, ...) and the returns of lines 110 and 64.
Parse ==
    /\ pc = "parse"
    /\ LET r == ParseConfig(content)
       IN  /\ Step("parse", r.ok)
           /\ IF r.ok
              THEN /\ hclFile' = File(r.body)
                   /\ parsed0' = File(r.body)
                   /\ err' = NoError
                   /\ pc' = "update"
                   /\ UNCHANGED ret
              ELSE /\ err' = <<"failed to parse file content">>
                   /\ ret' = <<"failed to parse HCL file", "failed to parse file content">>
                   /\ pc' = "close"
                   /\ UNCHANGED <<hclFile, parsed0>>
    /\ UNCHANGED <<disk, exists, writePerm, varname, value, file, pos, size,
                   content, logged, disk0>>

\* Update with the error of updateLocal dropped: the save follows anyway.
UpdateIgnoringError ==
    /\ pc = "update"
    /\ LET r == updateLocal(hclFile, varname, value)
       IN  /\ Step("update", r.found)
           /\ hclFile' = File(r.body)
           /\ pc' = "truncate"
           /\ UNCHANGED ret
    /\ UNCHANGED <<disk, exists, writePerm, varname, value, file, pos, size,
                   content, err, logged, disk0, parsed0>>

\* updateLocal(ctx, hclFile, varname, value) and the return of line 68.
Update ==
    /\ pc = "update"
    /\ LET r == updateLocal(hclFile, varname, value)
       IN  /\ Step("update", r.found)
           /\ IF r.found
              THEN /\ hclFile' = File(r.body)
                   /\ pc' = "truncate"
                   /\ UNCHANGED ret
              ELSE /\ ret' = <<"failed to update local", "not found", varname>>
                   /\ pc' = "close"
                   /\ UNCHANGED hclFile
    /\ UNCHANGED <<disk, exists, writePerm, varname, value, file, pos, size,
                   content, err, logged, disk0, parsed0>>

\* saveHCLToFile without the truncate: the file keeps its length.
TruncateSkipped ==
    /\ pc = "truncate"
    /\ Step("truncate", TRUE)
    /\ pc' = "seek"
    /\ UNCHANGED <<disk, exists, writePerm, varname, value, file, pos, size,
                   content, hclFile, err, ret, logged, disk0, parsed0>>

\* file.Truncate(0) in saveHCLToFile: the length becomes 0, the cursor stays.
Truncate ==
    /\ pc = "truncate"
    /\ \E ok \in BOOLEAN :
        /\ Step("truncate", ok)
        /\ IF ok
           THEN /\ disk' = <<>>
                /\ pc' = "seek"
                /\ UNCHANGED ret
           ELSE /\ ret' = <<"failed to save to file", "failed to truncate file">>
                /\ pc' = "close"
                /\ UNCHANGED disk
    /\ UNCHANGED <<exists, writePerm, varname, value, file, pos, size, content,
                   hclFile, err, logged, disk0, parsed0>>

\* saveHCLToFile without the seek: the cursor stays where the read left it.
SeekSkipped ==
    /\ pc = "seek"
    /\ Step("seek", TRUE)
    /\ pc' = "write"
    /\ UNCHANGED <<disk, exists, writePerm, varname, value, file, pos, size,
                   content, hclFile, err, ret, logged, disk0, parsed0>>

\* file.Seek(0, io.SeekStart).
Seek ==
    /\ pc = "seek"
    /\ \E ok \in BOOLEAN :
        /\ Step("seek", ok)
        /\ IF ok
           THEN /\ pos' = 0
                /\ pc' = "write"
                /\ UNCHANGED ret
           ELSE /\ ret' = <<"failed to save to file", "failed to seek the start of file">>
                /\ pc' = "close"
                /\ UNCHANGED pos
    /\ UNCHANGED <<disk, exists, writePerm, varname, value, file, size, content,
                   hclFile, err, logged, disk0, parsed0>>

\* The file after a write of the bytes w at offset p: a write past the end
\* leaves a gap of NUL bytes, a write inside overwrites.
WriteAt(d, p, w) ==
    LET n == IF p + Len(w) > Len(d) THEN p + Len(w) ELSE Len(d)
    IN  IF w = <<>> THEN d
        ELSE [k \in 1..n |->
                 IF k > p /\ k <= p + Len(w) THEN w[k - p]
                 ELSE IF k <= Len(d) THEN d[k] ELSE NUL]

\* hclFile.WriteTo(file): Tokens.WriteTo writes the tokens one after the
\* other and stops at the first Write that fails, so a failed WriteTo has
\* written k bytes, fewer than all.
WriteTo ==
    /\ pc = "write"
    /\ LET out == Bytes(hclFile.body)
       IN  \E k \in 0..Len(out) :
            /\ Step("write", k = Len(out))
            /\ disk' = WriteAt(disk, pos, SubSeq(out, 1, k))
            /\ pos' = pos + k
            /\ ret' = IF k = Len(out) THEN NoError
                      ELSE <<"failed to save to file", "failed to write to file">>
            /\ pc' = "close"
    /\ UNCHANGED <<exists, writePerm, varname, value, file, size, content,
                   hclFile, err, logged, disk0, parsed0>>

\* Close in a function whose result is the named variable err: the error of
\* the close replaces what the return statement set.
CloseNamedResult ==
    /\ pc = "close"
    /\ \E ok \in BOOLEAN :
        /\ Step("close", ok)
        /\ file' = "closed"
        /\ err' = IF ok THEN NoError ELSE <<"close error">>
        /\ ret' = IF ok THEN NoError ELSE <<"close error">>
        /\ logged' = IF ok THEN logged ELSE Append(logged, "Error closing file")
        /\ pc' = "done"
    /\ UNCHANGED <<disk, exists, writePerm, varname, value, pos, size, content,
                   hclFile, disk0, parsed0>>

\* The deferred function: err = file.Close(), logged when it fails.  The
\* result of updateHclFile is unnamed, so assigning err does not change it.
Close ==
    /\ pc = "close"
    /\ \E ok \in BOOLEAN :
        /\ Step("close", ok)
        /\ file' = "closed"
        /\ err' = IF ok THEN NoError ELSE <<"close error">>
        /\ logged' = IF ok THEN logged ELSE Append(logged, "Error closing file")
        /\ pc' = "done"
    /\ UNCHANGED <<disk, exists, writePerm, varname, value, pos, size, content,
                   hclFile, ret, disk0, parsed0>>

Next ==
    \/ OpenFile
    \/ Stat
    \/ Read
    \/ Parse
    \/ Update
    \/ Truncate
    \/ Seek
    \/ WriteTo
    \/ Close

Spec == Init /\ [][Next]_vars

-----------------------------------------------------------------------------
(* What the run did, read off the trace                                    *)

Did(name) == \E i \in 1..Len(trace) : trace[i][1] = name
Ok(name) == \E i \in 1..Len(trace) : trace[i] = <<name, TRUE>>
Failed(name) == \E i \in 1..Len(trace) : trace[i] = <<name, FALSE>>
Done == pc = "done"

\* Indices of the top-level `locals` blocks of items that define name.
DefiningLocals(items, name) ==
    {i \in 1..Len(items) :
        /\ items[i].kind = "block"
        /\ items[i].type = "L"
        /\ \E k \in 1..Len(items[i].body) :
              items[i].body[k].kind = "attr" /\ items[i].body[k].name = name}

Min(S) == CHOOSE x \in S : \A y \in S : x <= y

\* The expression of attribute name in body.
ExprOf(body, name) ==
    LET k == CHOOSE k \in 1..Len(body) :
                 body[k].kind = "attr" /\ body[k].name = name
    IN  body[k].expr

IsProperPrefix(p, q) == Len(p) < Len(q) /\ p = SubSeq(q, 1, Len(p))

-----------------------------------------------------------------------------
\* C1: when the parsed document has no top-level `locals` block defining
\* varname, the run returns the "failed to update local ... not found" error
\* naming varname, the file keeps its original bytes, and no truncate, seek
\* or write was performed.
C1_NotFoundLeavesFile ==
    (Done /\ Ok("parse") /\ DefiningLocals(parsed0.body, varname) = {})
        => /\ ret = <<"failed to update local", "not found", varname>>
           /\ disk = disk0
           /\ ~Did("truncate") /\ ~Did("seek") /\ ~Did("write")

\* A run on a document whose only definition of varname is outside the
\* top-level `locals` blocks.
C1_Witness ==
    /\ Done /\ Ok("parse")
    /\ DefiningLocals(parsed0.body, varname) = {}
    /\ \E i \in 1..Len(parsed0.body) :
          parsed0.body[i].kind = "block" /\ parsed0.body[i].type = "L"
    /\ \E i \in 1..Len(parsed0.body) :
          parsed0.body[i].kind = "block" /\ parsed0.body[i].type = "O"

\* C2: with several top-level `locals` blocks defining varname, updateLocal
\* sets the value in the first of them only, the later ones keep their
\* blocks as parsed, and a `locals` block before them that does not define
\* varname does not end the scan.
C2_FirstMatchWins ==
    LET m == DefiningLocals(parsed0.body, varname)
    IN  (Did("update") /\ m # {})
            => /\ Ok("update")
               /\ ExprOf(hclFile.body[Min(m)].body, varname) = StringVal(value)
               /\ \A i \in m \ {Min(m)} : hclFile.body[i] = parsed0.body[i]

\* Two defining `locals` blocks after a `locals` block that does not define
\* varname, and a new value that differs from the old ones.
C2_Witness ==
    LET m == DefiningLocals(parsed0.body, varname)
    IN  /\ Ok("update")
        /\ Cardinality(m) >= 2
        /\ \E j \in 1..(Min(m) - 1) :
              parsed0.body[j].kind = "block" /\ parsed0.body[j].type = "L"
        /\ \A i \in m : ExprOf(parsed0.body[i].body, varname) # StringVal(value)

\* C3 as claimed: at the end of a run the file holds its original bytes or
\* the whole serialization of the updated document, except that it is empty
\* when the truncate succeeded and the seek or the write failed.
C3_NoPartialUpdate ==
    Done => \/ disk = disk0
            \/ Ok("update") /\ disk = Bytes(hclFile.body)
            \/ /\ Ok("truncate")
               /\ Failed("seek") \/ Failed("write")
               /\ disk = <<>>

\* C3 amended: at the end of a run the file holds the whole serialization
\* of the updated document when the run succeeded; a proper prefix of it
\* (empty when the seek failed) when the truncate succeeded and the seek or
\* the write failed; and its original bytes otherwise.
C3_PrefixOnSaveFailure ==
    Done => IF ret = NoError
            THEN Ok("update") /\ disk = Bytes(hclFile.body)
            ELSE IF Ok("truncate")
            THEN /\ Failed("seek") \/ Failed("write")
                 /\ IsProperPrefix(disk, Bytes(hclFile.body))
                 /\ Failed("seek") => disk = <<>>
            ELSE disk = disk0

\* A write that failed after it had written some bytes.
C3_Witness == Done /\ Failed("write") /\ disk # <<>>

\* C4: after a save whose truncate, seek and write all succeeded the file
\* is exactly the serialized document, from offset 0 and of its length,
\* whatever the length of the file and the cursor were before.
C4_SaveReplacesFile ==
    (Ok("truncate") /\ Ok("seek") /\ Ok("write"))
        => disk = Bytes(hclFile.body)

\* A successful save of a document shorter than the old file, by a handle
\* whose cursor was not at end-of-file when the save began.
C4_Witness ==
    /\ Ok("write")
    /\ Len(disk) < Len(disk0)
    /\ content # disk0

\* C5: after a successful run the document in the file is the parsed
\* original with one change: the expression of varname in the first
\* `locals` block defining it is the string value.  Blocks, labels, other
\* attributes, comments and their order are as parsed.
C5_OnlyTargetChanges ==
    (Done /\ ret = NoError)
        => LET saved == ParseConfig(disk)
               m == DefiningLocals(parsed0.body, varname)
           IN  /\ saved.ok
               /\ m # {}
               /\ Len(saved.body) = Len(parsed0.body)
               /\ \A i \in 1..Len(parsed0.body) :
                     IF i # Min(m) THEN saved.body[i] = parsed0.body[i]
                     ELSE /\ saved.body[i].kind = "block"
                          /\ saved.body[i].type = parsed0.body[i].type
                          /\ saved.body[i].labels = parsed0.body[i].labels
                          /\ Len(saved.body[i].body) = Len(parsed0.body[i].body)
                          /\ \A k \in 1..Len(parsed0.body[i].body) :
                                LET old == parsed0.body[i].body[k]
                                    new == saved.body[i].body[k]
                                IN  IF old.kind = "attr" /\ old.name = varname
                                    THEN new = [kind |-> "attr", name |-> varname,
                                                expr |-> StringVal(value)]
                                    ELSE new = old

\* A successful run on a document with something before and after the
\* target block, whose body holds a comment and another attribute.
C5_Witness ==
    /\ Done /\ ret = NoError
    /\ LET m == DefiningLocals(parsed0.body, varname)
       IN  /\ m # {}
           /\ 1 < Min(m) /\ Min(m) < Len(parsed0.body)
           /\ \E k \in 1..Len(parsed0.body[Min(m)].body) :
                 parsed0.body[Min(m)].body[k].kind = "comment"
           /\ \E k \in 1..Len(parsed0.body[Min(m)].body) :
                 /\ parsed0.body[Min(m)].body[k].kind = "attr"
                 /\ parsed0.body[Min(m)].body[k].name # varname
           /\ ExprOf(parsed0.body[Min(m)].body, varname) # StringVal(value)

\* The stages in the order updateHclFile runs them, and the prefix of the
\* error each one returns.
Order == <<"open", "stat", "read", "parse", "update", "truncate", "seek", "write">>

StagePrefix(step) ==
    CASE step = "open" -> "failed to open file"
      [] step \in {"stat", "read", "parse"} -> "failed to parse HCL file"
      [] step = "update" -> "failed to update local"
      [] step \in {"truncate", "seek", "write"} -> "failed to save to file"

\* C6: the stages run in the fixed order, each only after every earlier one
\* succeeded, and the run returns the error with the prefix of the first
\* stage that failed (nil when none did).
C6_StopAtFirstFailure ==
    LET t == SelectSeq(trace, LAMBDA e : e[1] # "close")
    IN  /\ Len(t) <= Len(Order)
        /\ \A i \in 1..Len(t) :
              /\ t[i][1] = Order[i]
              /\ i < Len(t) => t[i][2]
        /\ (t # <<>> /\ ~t[Len(t)][2])
              => /\ pc \in {"close", "done"}
                 /\ ret # NoError
                 /\ ret[1] = StagePrefix(t[Len(t)][1])
        /\ Done => \/ t # <<>> /\ ~t[Len(t)][2]
                   \/ Len(t) = Len(Order) /\ ret = NoError

\* A run on a file that is no valid document: it ends with the parse error
\* and neither update nor save was attempted.
C6_Witness ==
    /\ Done
    /\ content = disk0
    /\ Failed("parse")
    /\ ret = <<"failed to parse HCL file", "failed to parse file content">>
    /\ ~Did("update") /\ ~Did("write")

\* The file is a valid document with the target attribute.
ValidWithTarget ==
    /\ ParseConfig(disk0).ok
    /\ DefiningLocals(ParseConfig(disk0).body, varname) # {}

C8_ShortReadIsError ==
    (Did("read") /\ ~Did("seek") /\ pos < size)
        => /\ Failed("read")
           /\ ~Did("parse")
           /\ hclFile = NoFile
           /\ ret = <<"failed to parse HCL file", "failed to read file content">>

\* C9: a run whose open succeeded closes the handle exactly once, as its
\* last step, on every path; a run whose open failed closes nothing.
C9_GuaranteedClose ==
    LET closes == {i \in 1..Len(trace) : trace[i][1] = "close"}
    IN  /\ Cardinality(closes) <= 1
        /\ closes # {} => closes = {Len(trace)} /\ file = "closed" /\ Done
        /\ (Done /\ Ok("open")) => closes # {}
        /\ Failed("open") => closes = {} /\ file = "nil"
        /\ file = "closed" => closes # {}

\* The end of a run whose seek failed: the handle was closed after it.
C9_Witness ==
    /\ Done /\ Failed("seek")
    /\ trace[Len(trace)][1] = "close"
    /\ file = "closed"

\* C10: the deferred close leaves the returned value as the return
\* statement set it, whether the close fails or not, and a failed close
\* adds a message to the log.
C10_CloseKeepsResult ==
    [][pc = "close"
          => /\ ret' = ret
             /\ trace'[Len(trace')] = <<"close", FALSE>>
                   => logged' = Append(logged, "Error closing file")]_vars

\* A successful run whose close failed: nil is returned, the failure logged.
C10_Witness ==
    /\ Done /\ Failed("close")
    /\ ret = NoError
    /\ logged = <<"Error closing file">>

====
